---------------------------- MODULE Spec2Model ----------------------------
(***************************************************************************)
(* The A2A chat client (A2AClient) and the Streamlit chat shell (main) of  *)
(* sql_agent/chat_interface.py: one streaming call is the HTTP POST, the   *)
(* loop over the server-sent events of the response, and the return of     *)
(* final_response (or an exception); the shell appends to                  *)
(* st.session_state.messages around each call.                             *)
(***************************************************************************)
EXTENDS Integers, Sequences, FiniteSets, TLC

VARIABLES
    messages,        \* st.session_state.messages: sequence of [role, content]
    client,          \* st.session_state.client: [server_url, session_id]
    uuids,           \* number of uuid.uuid4() values drawn so far
    turn,            \* number of user turns (calls of send_message) started
    pc,              \* "idle" | "call" | "read" | "returned" | "raised", or
                     \* "crashed" once an exception has left main()
    prompt,          \* the chat input of the current turn
    task_id,         \* the task id of the current call
    requests,        \* every request handed to requests.post, in order
    status_code,     \* response.status_code of the current call (0: no response)
    stream,          \* the events the server delivers on the current response
    pos,             \* number of events of stream pulled by the for loop
    final_response,  \* the local dict final_response
    response,        \* the value send_message returned
    conns,           \* task ids whose HTTP connection is still open
    agent_idx,       \* server: the sub-agent to run next (0: no turn running,
                     \* -1: the turn failed on a missing prompt variable)
    adk_state,       \* server: the session state the output keys are written to
    instruction,     \* server: the values filled into the last prompt
    ran,             \* server: names of the sub-agents run in this turn
    runs             \* server: number of pipeline turns started

pipeVars == <<agent_idx, adk_state, instruction, ran, runs>>

vars == <<messages, client, uuids, turn, pc, prompt, task_id, requests,
          status_code, stream, pos, final_response, response, conns, pipeVars>>

---------------------------------------------------------------------------
(* Bounds *)

MaxEvents == 2      \* longest event stream of one response
MaxTurns == 2       \* user turns of one shell run

---------------------------------------------------------------------------
(* Values *)

Absent == "absent"              \* a key that the dict does not hold
HTTP_OK == 200                  \* the status the client accepts

Prompts == {"q1", "q2"}
ErrorStatuses == {500}          \* a non-success status the server may answer
HttpError == "http_error"       \* f"Error: {status_code} - {text}"
ServerUrl == "http://localhost:10002/"

\* A dict as the shell sees it: every key is present or Absent.
Dict(status, content, error) ==
    [status |-> status, content |-> content, error |-> error]

NoDict == Dict(Absent, Absent, Absent)

\* A content part {type, text}; either key may be missing.
Part(type, text) == [type |-> type, text |-> text]

T1 == Part("text", "t1")
T2 == Part("text", "t2")
D1 == Part("data", "d1")            \* a part whose type is not "text"
NoType == Part(Absent, "t1")        \* a part without "type"
NoText == Part("text", Absent)      \* a text part without "text"
DataNoText == Part("data", Absent)  \* a part of another type without "text"

(* The payload of one server-sent event: data is "empty" (no data),       *)
(* "bad" (not JSON) or "obj" (a JSON object). For an object: result says  *)
(* whether it holds "result"; message is "nostatus" (result without       *)
(* "status"), "falsy" (status without message, or a null/empty message),  *)
(* "noparts" (a message without "parts") or "parts"; final is Absent,     *)
(* "false" or "true"; error is Absent or the error payload.               *)
Event(data, result, message, parts, final, error) ==
    [data |-> data, result |-> result, message |-> message, parts |-> parts,
     final |-> final, error |-> error]

KeepAlive == Event("empty", FALSE, "nostatus", <<>>, Absent, Absent)
BadJson == Event("bad", FALSE, "nostatus", <<>>, Absent, Absent)
Neither == Event("obj", FALSE, "nostatus", <<>>, Absent, Absent)
ErrorOnly == Event("obj", FALSE, "nostatus", <<>>, Absent, "boom")
Result(message, parts, final) ==
    Event("obj", TRUE, message, parts, final, Absent)
ResultAndError(message, parts, final) ==
    Event("obj", TRUE, message, parts, final, "boom")

\* Part lists without a malformed part.
WellPartSeqs == {<<>>, <<T1>>, <<T2>>, <<D1>>, <<T1, T2>>, <<T2, D1>>}

\* Well-formed result events: every message shape with every final value.
ResultEvents ==
    {Result(m, <<>>, f) : m \in {"nostatus", "falsy"}, f \in {Absent, "false", "true"}}
    \cup {Result("parts", ps, f) : ps \in WellPartSeqs, f \in {Absent, "false", "true"}}

\* Events that carry an error field, alone or beside a result.
ErrorEvents ==
    {ErrorOnly, ResultAndError("parts", <<T1>>, Absent),
     ResultAndError("parts", <<T2>>, "true"),
     ResultAndError("nostatus", <<>>, "true")}

\* Payloads that are not well-formed Streamed Events.
MalformedEvents ==
    {BadJson, Neither, Result("noparts", <<>>, Absent),
     Result("parts", <<T1, NoType>>, Absent),
     Result("parts", <<NoText>>, "true"),
     Result("parts", <<Part(Absent, Absent)>>, Absent),
     Result("parts", <<DataNoText>>, Absent),
     ResultAndError("noparts", <<>>, Absent)}

Events == {KeepAlive} \cup ResultEvents \cup ErrorEvents \cup MalformedEvents

\* The events the shell's turns are exercised with.
ShellEvents ==
    {KeepAlive, BadJson, ErrorOnly, Result("parts", <<T1>>, Absent),
     Result("parts", <<T2>>, "true"), Result("noparts", <<>>, Absent)}

SeqsUpTo(S, n) == UNION {[1..k -> S] : k \in 0..n}

Streams == SeqsUpTo(Events, MaxEvents)
ShellStreams == SeqsUpTo(ShellEvents, MaxEvents)

---------------------------------------------------------------------------
(* The body of the event loop *)

\* A reducer that keeps the first text it saw instead of overwriting it.
RECURSIVE ProcessPartsKeepFirst(_, _)
ProcessPartsKeepFirst(content, parts) ==
    IF parts = <<>> THEN [content |-> content, raised |-> FALSE]
    ELSE LET part == Head(parts) IN
         IF part.type = Absent THEN [content |-> content, raised |-> TRUE]
         ELSE IF part.type = "text"
              THEN IF part.text = Absent
                   THEN [content |-> content, raised |-> TRUE]
                   ELSE ProcessPartsKeepFirst(
                            IF content = "" THEN part.text ELSE content, Tail(parts))
              ELSE ProcessPartsKeepFirst(content, Tail(parts))

\* A reducer that takes the text of every part, whatever its type.
RECURSIVE ProcessPartsAnyType(_, _)
ProcessPartsAnyType(content, parts) ==
    IF parts = <<>> THEN [content |-> content, raised |-> FALSE]
    ELSE LET part == Head(parts) IN
         IF part.type = Absent \/ part.text = Absent
         THEN [content |-> content, raised |-> TRUE]
         ELSE ProcessPartsAnyType(part.text, Tail(parts))

\* for part in message_parts: if part["type"] == "text": content = part["text"]
RECURSIVE ProcessParts(_, _)
ProcessParts(content, parts) ==
    IF parts = <<>> THEN [content |-> content, raised |-> FALSE]
    ELSE LET part == Head(parts) IN
         IF part.type = Absent THEN [content |-> content, raised |-> TRUE]
         ELSE IF part.type = "text"
              THEN IF part.text = Absent
                   THEN [content |-> content, raised |-> TRUE]
                   ELSE ProcessParts(part.text, Tail(parts))
              ELSE ProcessParts(content, Tail(parts))

\* A result branch that marks the final event but does not break.
ResultBranchNoBreak(fr, ev) ==
    IF ~ev.result THEN [fr |-> fr, ctl |-> "fall"]
    ELSE LET upd == IF ev.message = "parts"
                    THEN ProcessParts(fr.content, ev.parts)
                    ELSE [content |-> fr.content, raised |-> ev.message = "noparts"]
             fr1 == [fr EXCEPT !.content = upd.content]
         IN  IF upd.raised THEN [fr |-> fr1, ctl |-> "raise"]
             ELSE IF ev.final = "true"
                  THEN [fr |-> [fr1 EXCEPT !.status = "complete"], ctl |-> "fall"]
                  ELSE [fr |-> fr1, ctl |-> "fall"]

\* if "result" in data: ... ; ctl is "fall" (go on to the error check),
\* "break" or "raise".
ResultBranch(fr, ev) ==
    IF ~ev.result THEN [fr |-> fr, ctl |-> "fall"]
    ELSE LET upd == IF ev.message = "parts"
                    THEN ProcessParts(fr.content, ev.parts)
                    ELSE [content |-> fr.content, raised |-> ev.message = "noparts"]
             fr1 == [fr EXCEPT !.content = upd.content]
         IN  IF upd.raised THEN [fr |-> fr1, ctl |-> "raise"]
             ELSE IF ev.final = "true"
                  THEN [fr |-> [fr1 EXCEPT !.status = "complete"], ctl |-> "break"]
                  ELSE [fr |-> fr1, ctl |-> "fall"]

\* An error branch that sets the status and drops the payload.
ErrorBranchNoPayload(fr, ev) ==
    IF ev.error # Absent
    THEN [fr |-> [fr EXCEPT !.status = "error"], ctl |-> "break"]
    ELSE [fr |-> fr, ctl |-> "continue"]

\* An error branch that records the error and goes on reading.
ErrorBranchNoBreak(fr, ev) ==
    IF ev.error # Absent
    THEN [fr |-> [fr EXCEPT !.status = "error", !.error = ev.error],
          ctl |-> "continue"]
    ELSE [fr |-> fr, ctl |-> "continue"]

\* if "error" in data: ...
ErrorBranch(fr, ev) ==
    IF ev.error # Absent
    THEN [fr |-> [fr EXCEPT !.status = "error", !.error = ev.error], ctl |-> "break"]
    ELSE [fr |-> fr, ctl |-> "continue"]

\* A loop body that hands empty data to json.loads, which raises.
LoopBodyParsesEmpty(fr, ev) ==
    IF ev.data \in {"empty", "bad"} THEN [fr |-> fr, ctl |-> "raise"]
    ELSE LET r == ResultBranch(fr, ev) IN
         IF r.ctl = "fall" THEN ErrorBranch(r.fr, ev) ELSE r

\* A loop body that skips a payload json.loads rejects.
LoopBodySkipsBadJson(fr, ev) ==
    IF ev.data \in {"empty", "bad"} THEN [fr |-> fr, ctl |-> "continue"]
    ELSE LET r == ResultBranch(fr, ev) IN
         IF r.ctl = "fall" THEN ErrorBranch(r.fr, ev) ELSE r

\* One iteration of the for loop on event ev; ctl is "continue", "break" or
\* "raise".
LoopBody(fr, ev) ==
    IF ev.data = "empty" THEN [fr |-> fr, ctl |-> "continue"]
    ELSE IF ev.data = "bad" THEN [fr |-> fr, ctl |-> "raise"]
    ELSE LET r == ResultBranch(fr, ev) IN
         IF r.ctl = "fall" THEN ErrorBranch(r.fr, ev) ELSE r

\* An initial dict that starts from the last answer in the history.
InitialResponseCarried ==
    LET answers == {i \in 1..Len(messages) : messages[i].role = "assistant"} IN
    Dict("incomplete",
         IF answers = {} THEN ""
         ELSE messages[CHOOSE i \in answers : \A j \in answers : j <= i].content,
         Absent)

\* An initial dict without the content key.
InitialResponseNoContent == Dict("incomplete", Absent, Absent)

InitialResponse == Dict("incomplete", "", Absent)

\* The loop from final_response = fr over the events s, as one function:
\* ctl is "break", "raise" or, when s is exhausted, "end".
RECURSIVE RunFrom(_, _)
RunFrom(fr, s) ==
    IF s = <<>> THEN [fr |-> fr, ctl |-> "end"]
    ELSE LET r == LoopBody(fr, Head(s)) IN
         IF r.ctl = "continue" THEN RunFrom(r.fr, Tail(s)) ELSE r

---------------------------------------------------------------------------
(* The server: the pipeline of agent.py *)

AnalyzerAgent ==
    [name |-> "sql_schema_analyzer", reads |-> {}, output_key |-> "query_plan"]
WriterAgent ==
    [name |-> "sql_writer", reads |-> {"query_plan"}, output_key |-> "sql_output"]
RefactorAgent ==
    [name |-> "sql_refactor", reads |-> {"sql_output", "query_plan"},
     output_key |-> "refactored_sql_output"]

\* A pipeline that lists the writer before the analyzer.
sub_agents_writer_first == <<WriterAgent, AnalyzerAgent, RefactorAgent>>

\* SequentialAgent(sub_agents=[...]): run in list order.
sub_agents == <<AnalyzerAgent, WriterAgent, RefactorAgent>>

StateKeys == {"query_plan", "sql_output", "refactored_sql_output"}
Outputs == {"o1", "o2", "o3"}   \* what a model call may answer

PipeInit ==
    /\ agent_idx = 0
    /\ adk_state = [k \in StateKeys |-> Absent]
    /\ instruction = <<>>
    /\ ran = <<>>
    /\ runs = 0

\* The state keys written so far in the current turn.
WrittenThisTurn ==
    {a.output_key : a \in {b \in {sub_agents[i] : i \in 1..Len(sub_agents)} :
                              \E j \in 1..Len(ran) : ran[j] = b.name}}

\* A user turn reaches the runner: the pipeline starts at its first agent.
StartPipeline ==
    /\ agent_idx = 0
    /\ runs < MaxTurns
    /\ runs' = runs + 1
    /\ agent_idx' = 1
    /\ ran' = <<>>
    /\ instruction' = <<>>
    /\ UNCHANGED <<adk_state, messages, client, uuids, turn, pc, prompt, task_id,
                   requests, status_code, stream, pos, final_response, response,
                   conns>>

\* The next sub-agent runs: its instruction is filled from the session
\* state (a variable the state does not hold fails the turn), the model
\* answers, and the answer is stored under the agent's output_key.
RunSubAgent ==
    /\ agent_idx \in 1..Len(sub_agents)
    /\ LET a == sub_agents[agent_idx] IN
        IF \E k \in a.reads : adk_state[k] = Absent
        THEN /\ agent_idx' = -1
             /\ UNCHANGED <<adk_state, instruction, ran>>
        ELSE /\ \E out \in Outputs :
                  adk_state' = [adk_state EXCEPT ![a.output_key] = out]
             /\ instruction' = [k \in a.reads |-> adk_state[k]]
             /\ ran' = Append(ran, a.name)
             /\ agent_idx' = IF agent_idx = Len(sub_agents) THEN 0
                             ELSE agent_idx + 1
    /\ UNCHANGED <<runs, messages, client, uuids, turn, pc, prompt, task_id,
                   requests, status_code, stream, pos, final_response, response,
                   conns>>

PipelineNext ==
    \/ StartPipeline
    \/ RunSubAgent

---------------------------------------------------------------------------
(* The state after the shell's first run constructed the client *)

Init ==
    /\ messages = <<>>
    /\ client = [server_url |-> ServerUrl, session_id |-> 1]
    /\ uuids = 1
    /\ turn = 0
    /\ pc = "idle"
    /\ prompt = Absent
    /\ task_id = 0
    /\ requests = <<>>
    /\ status_code = 0
    /\ stream = <<>>
    /\ pos = 0
    /\ final_response = NoDict
    /\ response = NoDict
    /\ conns = {}
    /\ PipeInit

\* The state in which a test calls send_message on a fresh client.
ClientInit ==
    /\ messages = <<>>
    /\ client = [server_url |-> ServerUrl, session_id |-> 1]
    /\ uuids = 1
    /\ turn = 1
    /\ pc = "call"
    /\ prompt \in Prompts
    /\ task_id = 0
    /\ requests = <<>>
    /\ status_code = 0
    /\ stream = <<>>
    /\ pos = 0
    /\ final_response = NoDict
    /\ response = NoDict
    /\ conns = {}
    /\ PipeInit

---------------------------------------------------------------------------
(* The shell: a chat input *)

\* A shell that starts the history afresh on each input.
SubmitReplacesHistory ==
    /\ pc = "idle"
    /\ turn < MaxTurns
    /\ \E p \in Prompts :
        /\ prompt' = p
        /\ messages' = <<[role |-> "user", content |-> p]>>
    /\ turn' = turn + 1
    /\ pc' = "call"
    /\ UNCHANGED <<client, uuids, task_id, requests, status_code, stream, pos,
                   final_response, response, conns>>
    /\ UNCHANGED pipeVars

\* if prompt := st.chat_input(...): messages.append(user message)
Submit ==
    /\ pc = "idle"
    /\ turn < MaxTurns
    /\ \E p \in Prompts :
        /\ prompt' = p
        /\ messages' = Append(messages, [role |-> "user", content |-> p])
    /\ turn' = turn + 1
    /\ pc' = "call"
    /\ UNCHANGED <<client, uuids, task_id, requests, status_code, stream, pos,
                   final_response, response, conns>>
    /\ UNCHANGED pipeVars

(* The client: send_message *)

\* A client that draws one task id at construction and sends it each time.
RequestReusesTask(id, method) ==
    [id |-> client.session_id + 1, method |-> method,
     params_id |-> client.session_id + 1,
     sessionId |-> client.session_id, url |-> client.server_url,
     text |-> prompt]

\* The JSON-RPC payload of one call.
Request(id, method) ==
    [id |-> id, method |-> method, params_id |-> id,
     sessionId |-> client.session_id, url |-> client.server_url,
     text |-> prompt]

\* A client that posts again when the status is not success.
PostedRequestsRetry(id, code) ==
    IF code \in ErrorStatuses
    THEN <<Request(id, "tasks/sendSubscribe"), Request(id, "tasks/sendSubscribe")>>
    ELSE <<Request(id, "tasks/sendSubscribe")>>

\* The requests one call hands to requests.post, given the status answered
\* (0: the post raised): one, whatever the status.
PostedRequests(id, code) == <<Request(id, "tasks/sendSubscribe")>>

\* send_message up to the loop: a fresh task id, the POST, the status check.
\* The server answers with a status and, on 200, a body of events from S;
\* requests.post may also raise (no connection). On a non-200 status the
\* body is read whole for response.text, which releases the connection.
Post(S) ==
    /\ pc = "call"
    /\ LET id == uuids + 1 IN
        /\ uuids' = id
        /\ task_id' = id
        /\ \/ /\ pc' = "raised"
              /\ UNCHANGED <<status_code, stream, final_response, response, conns>>
           \/ /\ status_code' \in ErrorStatuses
              /\ response' = Dict(Absent, Absent, HttpError)
              /\ pc' = "returned"
              /\ UNCHANGED <<stream, final_response, conns>>
           \/ /\ status_code' = HTTP_OK
              /\ stream' \in S
              /\ final_response' = InitialResponse
              /\ conns' = conns \cup {id}
              /\ pc' = "read"
              /\ UNCHANGED response
        /\ requests' = requests \o PostedRequests(id, status_code')
    /\ UNCHANGED <<messages, client, turn, prompt, pos>>
    /\ UNCHANGED pipeVars

\* What the body of a 200 answer to tasks/send is: a JSON document with
\* "result", one with "error", or no JSON at all.
Bodies == {"result", "error", "nojson"}

\* response.json() of a tasks/send answer, as a dict with the keys the
\* shell reads: the server's envelope has neither "status" nor "content".
Envelope(body) ==
    Dict(Absent, Absent, IF body = "error" THEN "boom" ELSE Absent)

\* send_message(message, stream=False): a fresh task id, the POST of
\* tasks/send, the status check, response.json().
SendRequest ==
    /\ pc = "call"
    /\ LET id == uuids + 1 IN
        /\ uuids' = id
        /\ task_id' = id
        /\ requests' = Append(requests, Request(id, "tasks/send"))
        /\ \/ /\ pc' = "raised"
              /\ UNCHANGED <<status_code, response>>
           \/ /\ status_code' \in ErrorStatuses
              /\ response' = Dict(Absent, Absent, HttpError)
              /\ pc' = "returned"
           \/ /\ status_code' = HTTP_OK
              /\ \E body \in Bodies :
                    IF body = "nojson"
                    THEN pc' = "raised" /\ UNCHANGED response
                    ELSE pc' = "returned" /\ response' = Envelope(body)
    /\ UNCHANGED <<messages, client, turn, prompt, stream, pos, final_response,
                   conns>>
    /\ UNCHANGED pipeVars

\* One iteration of for event in client.events().
ReadEvent ==
    /\ pc = "read"
    /\ pos < Len(stream)
    /\ LET r == LoopBody(final_response, stream[pos + 1]) IN
        /\ pos' = pos + 1
        /\ final_response' = r.fr
        /\ pc' = CASE r.ctl = "continue" -> "read"
                   [] r.ctl = "break" -> "returned"
                   [] OTHER -> "raised"
        /\ response' = IF r.ctl = "break" THEN r.fr ELSE response
    /\ UNCHANGED <<messages, client, uuids, turn, prompt, task_id, requests,
                   status_code, stream, conns>>
    /\ UNCHANGED pipeVars

\* A client that raises when the stream closes before a terminal event.
StreamEndRaises ==
    /\ pc = "read"
    /\ pos = Len(stream)
    /\ conns' = conns \ {task_id}
    /\ pc' = "raised"
    /\ UNCHANGED <<messages, client, uuids, turn, prompt, task_id, requests,
                   status_code, stream, pos, final_response, response>>
    /\ UNCHANGED pipeVars

\* The server closed the stream: the loop ends, the body is consumed and
\* the connection released.
StreamEnd ==
    /\ pc = "read"
    /\ pos = Len(stream)
    /\ response' = final_response
    /\ conns' = conns \ {task_id}
    /\ pc' = "returned"
    /\ UNCHANGED <<messages, client, uuids, turn, prompt, task_id, requests,
                   status_code, stream, pos, final_response>>
    /\ UNCHANGED pipeVars

(* The shell: the response or the exception of the call *)

\* A shell that records every returned response, error or not.
RenderAlwaysAppends ==
    /\ pc \in {"returned", "raised"}
    /\ messages' =
         IF pc = "returned"
         THEN Append(messages,
                     [role |-> "assistant",
                      content |-> IF response.error = Absent
                                  THEN response.content ELSE response.error])
         ELSE messages
    /\ pc' = "idle"
    /\ status_code' = 0
    /\ stream' = <<>>
    /\ pos' = 0
    /\ final_response' = NoDict
    /\ response' = NoDict
    /\ UNCHANGED <<client, uuids, turn, prompt, task_id, requests, conns>>
    /\ UNCHANGED pipeVars

\* A shell without the except clause: an exception of the call leaves main().
RenderNoExcept ==
    /\ pc \in {"returned", "raised"}
    /\ messages' =
         IF pc = "returned" /\ response.error = Absent /\ response.content # Absent
         THEN Append(messages, [role |-> "assistant", content |-> response.content])
         ELSE messages
    /\ pc' = IF pc = "raised" THEN "crashed" ELSE "idle"
    /\ status_code' = 0
    /\ stream' = <<>>
    /\ pos' = 0
    /\ final_response' = NoDict
    /\ response' = NoDict
    /\ UNCHANGED <<client, uuids, turn, prompt, task_id, requests, conns>>
    /\ UNCHANGED pipeVars

\* if "error" in response: error(...) else: write, append; an exception of
\* the try block (of the call, or of response["content"]) goes to the
\* except clause, which shows it.
Render ==
    /\ pc \in {"returned", "raised"}
    /\ messages' =
         IF pc = "returned" /\ response.error = Absent /\ response.content # Absent
         THEN Append(messages, [role |-> "assistant", content |-> response.content])
         ELSE messages
    /\ pc' = "idle"
    /\ status_code' = 0
    /\ stream' = <<>>
    /\ pos' = 0
    /\ final_response' = NoDict
    /\ response' = NoDict
    /\ UNCHANGED <<client, uuids, turn, prompt, task_id, requests, conns>>
    /\ UNCHANGED pipeVars

\* The runtime reclaims the response object of a call that has ended.
Finalize ==
    /\ \E c \in conns :
        /\ c # task_id \/ pc \notin {"call", "read"}
        /\ conns' = conns \ {c}
    /\ UNCHANGED <<messages, client, uuids, turn, pc, prompt, task_id, requests,
                   status_code, stream, pos, final_response, response>>
    /\ UNCHANGED pipeVars

Next ==
    \/ Submit
    \/ Post(ShellStreams)
    \/ ReadEvent
    \/ StreamEnd
    \/ Render
    \/ Finalize

Spec == Init /\ [][Next]_vars

ClientNext ==
    \/ Post(Streams)
    \/ SendRequest
    \/ ReadEvent
    \/ StreamEnd

ClientSpec == ClientInit /\ [][ClientNext]_vars

\* The server alone: the shell and the client stay as constructed.
PipelineSpec == Init /\ [][PipelineNext]_vars

---------------------------------------------------------------------------
(* What the claims speak of *)

Done == pc \in {"returned", "raised"}
\* The current call took the streaming path and was answered 200.
Streaming ==
    /\ status_code = HTTP_OK
    /\ requests # <<>>
    /\ requests[Len(requests)].method = "tasks/sendSubscribe"

CarriesError(ev) == ev.data = "obj" /\ ev.error # Absent
IsFinal(ev) == ev.data = "obj" /\ ev.result /\ ev.final = "true"
Terminal(ev) == CarriesError(ev) \/ IsFinal(ev)

\* An empty keep-alive, or a JSON object whose message, if it has one,
\* holds parts that each have a type and a text.
WellShaped(ev) ==
    \/ ev.data = "empty"
    \/ /\ ev.data = "obj"
       /\ ev.message # "noparts"
       /\ \A i \in 1..Len(ev.parts) :
            ev.parts[i].type # Absent /\ ev.parts[i].text # Absent

IsTextPart(p) == p.type = "text"

\* The parts of type "text" of one event, in order.
TextsOf(ev) ==
    IF ev.data = "obj" /\ ev.result /\ ev.message = "parts"
    THEN SelectSeq(ev.parts, IsTextPart) ELSE <<>>

\* The parts of type "text" of the events s, in order.
RECURSIVE TextParts(_)
TextParts(s) ==
    IF s = <<>> THEN <<>> ELSE TextsOf(Head(s)) \o TextParts(Tail(s))

\* The text of the last part of type "text" among the events s, else "".
LastText(s) ==
    LET ts == TextParts(s) IN IF ts = <<>> THEN "" ELSE ts[Len(ts)].text

Prefix(s, k) == SubSeq(s, 1, k)

\* The position of the first final event of s, else 0.
FirstFinal(s) ==
    IF \E i \in 1..Len(s) : IsFinal(s[i])
    THEN CHOOSE i \in 1..Len(s) :
            IsFinal(s[i]) /\ \A j \in 1..(i - 1) : ~IsFinal(s[j])
    ELSE 0

\* The position of the first terminal event of s, else 0.
FirstTerminal(s) ==
    IF \E i \in 1..Len(s) : Terminal(s[i])
    THEN CHOOSE i \in 1..Len(s) :
            Terminal(s[i]) /\ \A j \in 1..(i - 1) : ~Terminal(s[j])
    ELSE 0

\* The case of C1: no event carries an error, the first final event is at
\* k, and the events up to k are well-shaped.
C1_Case ==
    /\ Done /\ Streaming
    /\ \A i \in 1..Len(stream) : ~CarriesError(stream[i])
    /\ FirstFinal(stream) > 0
    /\ \A i \in 1..FirstFinal(stream) : WellShaped(stream[i])

\* C1: a stream without error events whose first final event is at k
\* returns status "complete" and, as content, the text of the last part of
\* type "text" among the events up to k ("" if none): a later text part
\* replaces an earlier one.
C1_CompleteLastText ==
    C1_Case =>
        /\ pc = "returned"
        /\ response =
             Dict("complete", LastText(Prefix(stream, FirstFinal(stream))), Absent)

C1_Witness ==
    /\ C1_Case
    /\ FirstFinal(stream) = 2
    /\ Len(TextParts(stream)) >= 2
    /\ TextParts(stream)[1].text = "t2"
    /\ response.content = "t1"

\* C2: no event after the first terminal event (an error field, or
\* result.final true) is pulled from the stream, and the outcome returned
\* is that of the loop run on the events up to it alone.
C2_StopsAtTerminal ==
    Streaming =>
        /\ \A i \in 1..Len(stream) : Terminal(stream[i]) => pos <= i
        /\ (pc = "returned" /\ FirstTerminal(stream) > 0) =>
             response =
               RunFrom(InitialResponse, Prefix(stream, FirstTerminal(stream))).fr

C2_Witness ==
    /\ pc = "returned" /\ Streaming
    /\ pos = 1 /\ Len(stream) = 2
    /\ Terminal(stream[1])
    /\ TextsOf(stream[2]) # <<>>
    /\ Terminal(stream[2])

\* What the text parts of event ev leave in content c.
ContentAfter(c, ev) == IF TextsOf(ev) = <<>> THEN c ELSE LastText(<<ev>>)

\* The loop is about to pull an event that carries an error field.
AtErrorEvent ==
    pc = "read" /\ pos < Len(stream) /\ CarriesError(stream[pos + 1])

C4_Case ==
    /\ Done /\ Streaming
    /\ \A i \in 1..Len(stream) : WellShaped(stream[i]) /\ ~Terminal(stream[i])

\* C4: a stream that ends without an error or final event returns (it does
\* not raise) status "incomplete", no error field, and the last text part
\* observed as content.
C4_IncompleteOnEnd ==
    C4_Case =>
        /\ pc = "returned"
        /\ response = Dict("incomplete", LastText(stream), Absent)

C4_Witness ==
    /\ C4_Case
    /\ Len(stream) = 2
    /\ response.status = "incomplete"
    /\ response.content = "t2"
    /\ TextsOf(stream[1]) # <<>>

\* C5 as claimed: the connection of a call is closed on every exit path,
\* so none is open once the call has ended or the shell awaits input.
C5_ConnectionClosed ==
    pc \in {"returned", "raised", "idle"} => conns = {}

\* A step that starts a turn, and a step that ends one.
TurnStarts == pc = "idle" /\ pc' = "call"
TurnEnds == Done /\ pc' # pc

\* The turn ended in an error: an exception of the client, a non-success
\* HTTP status, or an error event of the server.
TurnFailed ==
    \/ pc = "raised"
    \/ status_code # HTTP_OK
    \/ final_response.status = "error"

UserEntry(p) == [role |-> "user", content |-> p]
AssistantEntry(c) == [role |-> "assistant", content |-> c]

\* C6: a turn appends the user message; when it ends, an assistant entry
\* with the reduced content is appended if it did not end in an error, and
\* nothing is appended if it did.
C6_AssistantOnlyOnSuccess ==
    [][/\ TurnStarts => messages' = Append(messages, UserEntry(prompt'))
       /\ TurnEnds =>
            messages' = IF TurnFailed THEN messages
                        ELSE Append(messages, AssistantEntry(final_response.content))
      ]_vars

Roles(h) == [i \in 1..Len(h) |-> h[i].role]

C6_Witness ==
    /\ pc = "idle"
    /\ Roles(messages) = <<"user", "user", "assistant">>
    /\ messages[3].content = "t2"

\* C7 as claimed: a turn whose stream closed without a terminal event adds
\* no assistant entry to the history.
C7_IncompleteNotRecorded ==
    [][(TurnEnds /\ pc = "returned" /\ response.status = "incomplete")
          => messages' = messages]_vars

\* The calls of send_message that reached requests.post.
CallsPosted == IF pc = "call" THEN turn - 1 ELSE turn

\* C8: every call of send_message makes exactly one HTTP request, and a
\* non-success status returns an error with no event pulled.
C8_OneRequestNoParse ==
    /\ Len(requests) = CallsPosted
    /\ status_code \in ErrorStatuses =>
         /\ pc = "returned"
         /\ response.error # Absent
         /\ pos = 0 /\ stream = <<>>

C8_Witness ==
    /\ status_code \in ErrorStatuses
    /\ turn = 2
    /\ Len(requests) = 2
    /\ response.error = HttpError

IsEmptyData(ev) == ev.data = "empty"
HasData(ev) == ~IsEmptyData(ev)

\* The stream without its empty-data events.
Strip(s) == SelectSeq(s, HasData)

\* C9: the call on a stream ends as the loop run on the stream without its
\* empty-data events does: the same exception, or the same outcome.
C9_EmptyDataNoOp ==
    (Done /\ Streaming) =>
        LET r == RunFrom(InitialResponse, Strip(stream)) IN
        IF pc = "raised" THEN r.ctl = "raise"
        ELSE r.ctl \in {"break", "end"} /\ response = r.fr

C9_Witness ==
    /\ pc = "returned" /\ Streaming
    /\ Len(stream) = 2
    /\ IsEmptyData(stream[1])
    /\ response.content = "t1"

IsPrefix(s, t) == Len(s) <= Len(t) /\ SubSeq(t, 1, Len(s)) = s

\* C10: no turn ends with the shell down: whatever the call did, the shell
\* goes back to awaiting input, with the history it had as a prefix of the
\* history it has, and it accepts the next input.
C10_ShellSurvives ==
    /\ [](pc # "crashed")
    /\ [](pc = "idle" /\ turn < MaxTurns => ENABLED Submit)
    /\ [][TurnEnds => pc' = "idle" /\ IsPrefix(messages, messages')]_vars

\* A turn that failed is followed by one whose call completed.
C10_Witness ==
    /\ pc = "returned"
    /\ turn = 2
    /\ Roles(messages) = <<"user", "user">>
    /\ response.status = "complete"

\* A Reduced Outcome: a status, a string content, and an error field
\* exactly when the status is "error".
IsReducedOutcome(d) ==
    /\ d.status \in {"incomplete", "complete", "error"}
    /\ d.content # Absent
    /\ (d.error # Absent) <=> (d.status = "error")

NonStreaming ==
    requests # <<>> /\ requests[Len(requests)].method = "tasks/send"

\* C11 as claimed: whatever send_message returns, on either path and for
\* any HTTP status, is a Reduced Outcome.
C11_AlwaysReducedOutcome ==
    pc = "returned" => IsReducedOutcome(response)

\* C11 as the code has it: the streaming path answered 200 returns a
\* Reduced Outcome; on a non-success status either path returns a dict
\* that holds an error string and neither status nor content; the
\* non-streaming path answered 200 returns the server's JSON document,
\* which has neither status nor content.
C11_ReducedOnStreaming200 ==
    pc = "returned" =>
        /\ Streaming => IsReducedOutcome(response)
        /\ status_code \in ErrorStatuses =>
             response = Dict(Absent, Absent, HttpError)
        /\ (NonStreaming /\ status_code = HTTP_OK) =>
             response.status = Absent /\ response.content = Absent

C11_Witness ==
    /\ pc = "returned"
    /\ Streaming
    /\ pos = 0 /\ stream = <<>>
    /\ IsReducedOutcome(response)

\* C12: while a stream is consumed the status is "incomplete"; it changes
\* at most once, from "incomplete" to "complete" or "error", and never
\* back or from one of these to the other.
C12_StatusOnlyForward ==
    /\ [](pc = "read" => final_response.status = "incomplete")
    /\ [][final_response'.status # final_response.status =>
            \/ pc = "call" /\ final_response'.status = "incomplete"
            \/ /\ final_response.status = "incomplete"
               /\ final_response'.status \in {"complete", "error"}
               /\ pc' = "returned"]_vars

C12_Witness ==
    /\ pc = "returned" /\ Streaming
    /\ pos = 2
    /\ TextsOf(stream[1]) # <<>>
    /\ final_response.status = "complete"

\* The loop is about to pull the event Ev.
AtEvent == pc = "read" /\ pos < Len(stream)
Ev == stream[pos + 1]

\* C14: a result event with several parts leaves in content the text of
\* its last part of type "text"; parts of another type do not alter
\* content, and an event without a text part (or without a message) leaves
\* content as it was.
C14_LastTextPartOfEvent ==
    [][(AtEvent /\ Ev.data = "obj" /\ Ev.result /\ WellShaped(Ev)) =>
        /\ pc' # "raised"
        /\ final_response'.content =
             IF \E i \in 1..Len(Ev.parts) : Ev.parts[i].type = "text"
             THEN LET last == CHOOSE i \in 1..Len(Ev.parts) :
                                /\ Ev.parts[i].type = "text"
                                /\ \A j \in (i + 1)..Len(Ev.parts) :
                                      Ev.parts[j].type # "text"
                  IN Ev.parts[last].text
             ELSE final_response.content]_vars

C14_Witness ==
    /\ Streaming /\ pos = 2
    /\ stream[1].parts = <<T1, T2>>
    /\ stream[2].parts = <<D1>>
    /\ final_response.content = "t2"

\* The payloads C18 names: unparseable, neither result nor error, a
\* message without parts, a part without type or without text.
Unparseable(ev) == ev.data = "bad"
NoResultNoError(ev) == ev.data = "obj" /\ ~ev.result /\ ev.error = Absent
MessageLacksParts(ev) == ev.data = "obj" /\ ev.result /\ ev.message = "noparts"
PartLacksKey(ev) ==
    /\ ev.data = "obj" /\ ev.result /\ ev.message = "parts"
    /\ \E i \in 1..Len(ev.parts) :
         ev.parts[i].type = Absent \/ ev.parts[i].text = Absent
NotWellFormed(ev) ==
    \/ Unparseable(ev)
    \/ NoResultNoError(ev)
    \/ MessageLacksParts(ev)
    \/ PartLacksKey(ev)

\* A part on which the loop reads a key that is missing: no type, or type
\* "text" and no text.
PartRaises(p) == p.type = Absent \/ (p.type = "text" /\ p.text = Absent)

\* C18 as claimed: every payload that is not a well-formed event aborts
\* the call with an exception when it is pulled; none is skipped.
C18_UniformAbort ==
    [][(AtEvent /\ NotWellFormed(Ev)) => pc' = "raised"]_vars

\* C18 as the code has it: an unparseable payload, a message without
\* parts, a part without type and a text part without text raise, wherever
\* the event stands and whatever content holds, and no outcome is
\* returned; a payload with neither result nor error is skipped with the
\* outcome untouched, and a part of another type without text is passed
\* over.
C18_AbortOrSkip ==
    [][AtEvent =>
        /\ ( \/ Unparseable(Ev)
             \/ MessageLacksParts(Ev)
             \/ /\ PartLacksKey(Ev)
                /\ \E i \in 1..Len(Ev.parts) : PartRaises(Ev.parts[i]) )
           => (pc' = "raised" /\ response' = response)
        /\ NoResultNoError(Ev) =>
             (pc' = "read" /\ final_response' = final_response)
        /\ ( /\ PartLacksKey(Ev)
             /\ \A i \in 1..Len(Ev.parts) : ~PartRaises(Ev.parts[i]) )
           => pc' # "raised"]_vars

C18_Witness ==
    /\ pc = "raised" /\ Streaming
    /\ pos = 2
    /\ NoResultNoError(stream[1])
    /\ PartLacksKey(stream[2])
    /\ final_response.content = "t1"

\* C13: every request carries the session id set at construction and a
\* task id no earlier request carried, the same in the envelope and in
\* params; the client's session id and server URL stay as constructed.
C13_FreshTaskFixedSession ==
    /\ client = [server_url |-> ServerUrl, session_id |-> 1]
    /\ \A i \in 1..Len(requests) :
         /\ requests[i].sessionId = client.session_id
         /\ requests[i].url = client.server_url
         /\ requests[i].id = requests[i].params_id
         /\ \A j \in 1..(i - 1) : requests[j].id # requests[i].id

C13_Witness ==
    /\ Len(requests) = 2
    /\ pc = "read"
    /\ requests[1].id # requests[2].id
    /\ requests[2].sessionId = requests[1].sessionId

\* C15: what a streaming call ends with is the loop run from the initial
\* dict on that call's events alone, whatever earlier turns left behind.
C15_OutcomeFromStreamAlone ==
    (Done /\ Streaming) =>
        LET r == RunFrom(Dict("incomplete", "", Absent), stream) IN
        IF pc = "raised" THEN r.ctl = "raise"
        ELSE r.ctl \in {"break", "end"} /\ response = r.fr

C15_Witness ==
    /\ pc = "returned" /\ Streaming
    /\ turn = 2
    /\ Len(messages) = 3
    /\ messages[2] = AssistantEntry("t2")
    /\ response = Dict("incomplete", "t1", Absent)

CountRole(h, r) == Cardinality({i \in 1..Len(h) : h[i].role = r})

\* C17: the history only grows at its end; each turn adds one user entry
\* and at most one assistant entry, and every assistant entry directly
\* follows the user entry of its turn.
C17_HistoryAppendOnly ==
    /\ [](/\ CountRole(messages, "user") = turn
          /\ CountRole(messages, "assistant") <= turn
          /\ \A i \in 1..Len(messages) :
               messages[i].role = "assistant" =>
                 i > 1 /\ messages[i - 1].role = "user")
    /\ [][/\ IsPrefix(messages, messages')
          /\ Len(messages') <= Len(messages) + 1
          /\ (TurnEnds /\ messages' # messages) =>
               /\ messages[Len(messages)] = UserEntry(prompt)
               /\ messages'[Len(messages')].role = "assistant"]_vars

C17_Witness ==
    /\ pc = "idle"
    /\ Roles(messages) = <<"user", "assistant", "user", "assistant">>

AgentOrder == <<"sql_schema_analyzer", "sql_writer", "sql_refactor">>

\* C16: the sub-agents of a turn run in the order schema analyzer, SQL
\* writer, SQL refactor, and each variable a sub-agent's prompt reads was
\* written under an output_key by a sub-agent that ran before it in the
\* same turn, so no prompt fails on a variable not yet written.
C16_ReadsAfterWrites ==
    /\ agent_idx # -1
    /\ IsPrefix(ran, AgentOrder)
    /\ agent_idx \in 1..Len(sub_agents) =>
         /\ sub_agents[agent_idx].name = AgentOrder[Len(ran) + 1]
         /\ sub_agents[agent_idx].reads \subseteq WrittenThisTurn

C16_Witness ==
    /\ runs = 2
    /\ agent_idx = 3
    /\ ran = <<"sql_schema_analyzer", "sql_writer">>
    /\ DOMAIN instruction = {"query_plan"}

===========================================================================
